---- MODULE Spec2Model ----
(***************************************************************************)
(* HEATED_PLATE (src/CUDA Seneca/a1.cpp): Jacobi relaxation of the steady  *)
(* state heat equation on an M by N grid.                                  *)
(*                                                                         *)
(* Numbers.  The program computes in binary64.  The model computes in      *)
(* exact fixed point: a temperature t is stored as the integer             *)
(* t * Scale(M, N), with Scale(M, N) = (2M + 2N - 4) * 4^MaxSweeps.  The   *)
(* division by 2M+2N-4 of the mean and the division by 4 of each of the    *)
(* first MaxSweeps sweeps are then exact integer divisions (invariant      *)
(* ExactArithmetic), so no model value is ever rounded.  For the grids     *)
(* whose mean is a dyadic number (3x3, 3x4, 4x3, 5x3, 5x5, ...) the same   *)
(* holds of the binary64 computation and the model is bit-exact.           *)
(*                                                                         *)
(* M and N are compile-time constants of the program (1000); the model     *)
(* picks them in Init and never changes them.                              *)
(***************************************************************************)
EXTENDS Integers, Naturals, Sequences, FiniteSets, TLC

VARIABLES M, N, epsilon, diff, mean, w, u, i, j, iterations,
          iterations_print, success, pc, out, report, output,
          visited, sweeps, diffs

vars == <<M, N, epsilon, diff, mean, w, u, i, j, iterations,
          iterations_print, success, pc, out, report, output,
          visited, sweeps, diffs>>

(* ------------------------------ bounds --------------------------------- *)

\* largest grid dimension of the main specification
MaxDim == 4

\* number of sweeps the fixed-point scale keeps exact; the loop is followed
\* this far
MaxSweeps == 6

\* largest grid dimension of the single-sweep specification SpecPerm
MaxPermDim == 4

\* a grid has at least one interior row and one interior column
Dims == 3..MaxDim

PermDims == 3..MaxPermDim

\* tolerances the user may enter, in halves of a degree:
\* -1, 0, 0.5, 5, 12.5, 30
EpsilonHalves == {-2, 0, 1, 10, 25, 60}

(* --------------------------- program constants ------------------------- *)

westValue == 100

eastValue == 100

southValue == 100

northValue == 0

(* ------------------------------ arithmetic ----------------------------- *)

BoundaryCount(m, n) == 2 * m + 2 * n - 4

Scale(m, n) == BoundaryCount(m, n) * (4 ^ MaxSweeps)

fabs(x) == IF x < 0 THEN 0 - x ELSE x

EpsilonValue(h, m, n) == (h * Scale(m, n)) \div 2

(* -------------------------------- grids -------------------------------- *)

Rows(m) == 0..(m - 1)

Cols(n) == 0..(n - 1)

Cells(m, n) == Rows(m) \X Cols(n)

Interior(m, n) == (1..(m - 2)) \X (1..(n - 2))

Boundary(m, n) == Cells(m, n) \ Interior(m, n)

ZeroGrid(m, n) == [r \in Rows(m) |-> [c \in Cols(n) |-> 0]]

(* ---------------------- setBoundaryValue (142-159) --------------------- *)

\* faulty variant: the west and east columns stamped over all rows and after the
\* south and north rows, so that the corners take the column values
StampBoundaryColumnsLast(g, m, n) ==
    LET s == Scale(m, n)
        g1 == [r \in Rows(m) |-> [c \in Cols(n) |->
                  IF r = m - 1 THEN southValue * s ELSE g[r][c]]]
        g2 == [r \in Rows(m) |-> [c \in Cols(n) |->
                  IF r = 0 THEN northValue * s ELSE g1[r][c]]]
        g3 == [r \in Rows(m) |-> [c \in Cols(n) |->
                  IF c = 0 THEN westValue * s ELSE g2[r][c]]]
    IN  [r \in Rows(m) |-> [c \in Cols(n) |->
            IF c = n - 1 THEN eastValue * s ELSE g3[r][c]]]

\* the four loops of setBoundaryValue, in the order they run
StampBoundary(g, m, n) ==
    LET s == Scale(m, n)
        g1 == [r \in Rows(m) |-> [c \in Cols(n) |->
                  IF r \in 1..(m - 2) /\ c = 0 THEN westValue * s ELSE g[r][c]]]
        g2 == [r \in Rows(m) |-> [c \in Cols(n) |->
                  IF r \in 1..(m - 2) /\ c = n - 1 THEN eastValue * s ELSE g1[r][c]]]
        g3 == [r \in Rows(m) |-> [c \in Cols(n) |->
                  IF r = m - 1 THEN southValue * s ELSE g2[r][c]]]
    IN  [r \in Rows(m) |-> [c \in Cols(n) |->
            IF r = 0 THEN northValue * s ELSE g3[r][c]]]

(* --------------------- setAverageBoundary (160-190) -------------------- *)

RECURSIVE ColumnSum(_, _, _, _)
\* mean = mean + g[r][c] for r = lo .. hi
ColumnSum(g, c, lo, hi) ==
    IF lo > hi THEN 0 ELSE g[lo][c] + ColumnSum(g, c, lo + 1, hi)

RECURSIVE RowSum(_, _, _, _)
\* mean = mean + g[r][c] for c = lo .. hi
RowSum(g, r, lo, hi) ==
    IF lo > hi THEN 0 ELSE g[r][lo] + RowSum(g, r, lo + 1, hi)

\* faulty variant: the two column loops run over all rows, counting the corners twice
BoundaryTotalCornersTwice(g, m, n) ==
    ColumnSum(g, 0, 0, m - 1) + ColumnSum(g, n - 1, 0, m - 1)
        + RowSum(g, m - 1, 0, n - 1) + RowSum(g, 0, 0, n - 1)

\* the four accumulation loops of setAverageBoundary (lines 161-177)
BoundaryTotal(g, m, n) ==
    ColumnSum(g, 0, 1, m - 2) + ColumnSum(g, n - 1, 1, m - 2)
        + RowSum(g, m - 1, 0, n - 1) + RowSum(g, 0, 0, n - 1)

\* line 178
MeanOf(g, m, n) == BoundaryTotal(g, m, n) \div BoundaryCount(m, n)

\* lines 182-188
FillInterior(g, m, n, v) ==
    [r \in Rows(m) |-> [c \in Cols(n) |->
        IF <<r, c>> \in Interior(m, n) THEN v ELSE g[r][c]]]

(* --------------------------- getHeat (211-255) ------------------------- *)

\* faulty variant: the loop runs while the change is strictly above the tolerance
LoopConditionStrict == epsilon < diff

\* faulty variant: the comparison is inverted
LoopConditionInverted == diff <= epsilon

\* line 217
LoopCondition == epsilon <= diff

\* faulty variant: the neighbours are read from the grid being written (Gauss-Seidel)
NeighbourSumInPlace(wg, ug, r, c) ==
    wg[r - 1][c] + wg[r + 1][c] + wg[r][c - 1] + wg[r][c + 1]

\* faulty variant: the cell itself is read in place of its east neighbour
NeighbourSumSelf(wg, ug, r, c) ==
    ug[r - 1][c] + ug[r + 1][c] + ug[r][c - 1] + ug[r][c]

\* line 239, the sum of the four neighbours
NeighbourSum(wg, ug, r, c) ==
    ug[r - 1][c] + ug[r + 1][c] + ug[r][c - 1] + ug[r][c + 1]

\* faulty variant: the change of the last cell visited replaces the maximum
NewDiffLast(d, change) == fabs(change)

\* line 239
NewValue(wg, ug, r, c) == NeighbourSum(wg, ug, r, c) \div 4

\* lines 241-244
NewDiff(d, change) == IF d < fabs(change) THEN fabs(change) ELSE d

\* k++ of a sweep counter; the model counts the first MaxSweeps sweeps and
\* holds the counter there
Increment(k) == IF k < MaxSweeps THEN k + 1 ELSE k

\* faulty variant: the schedule advances by one instead of doubling
NextPrintPlusOne(p) == p + 1

\* line 252
NextPrint(p) == 2 * p

(* ------------------------------- states -------------------------------- *)

Init ==
    /\ M \in Dims
    /\ N \in Dims
    /\ epsilon = 0
    /\ diff = 0
    /\ mean = 0
    /\ w = ZeroGrid(M, N)
    /\ u = ZeroGrid(M, N)
    /\ i = 0
    /\ j = 0
    /\ iterations = 0
    /\ iterations_print = 0
    /\ success = 0
    /\ pc = "readEpsilon"
    /\ out = <<>>
    /\ report = <<>>
    /\ output = <<>>
    /\ visited = {}
    /\ sweeps = 0
    /\ diffs = <<>>

(* ---------------------------- main (258-358) --------------------------- *)

\* lines 269-291.  EPSILON comes from cin (argc < 2) or from argv[1].  On the
\* argv path sscanf stores through a float conversion into a double, so the
\* value left in epsilon is not the one typed: any value of the input set
\* stands for it.  A conversion that matches nothing ends main with 1 before
\* anything else is written.
ReadEpsilon ==
    /\ pc = "readEpsilon"
    /\ \E fromArgv \in BOOLEAN :
         \/ /\ fromArgv
            /\ success' = 0
            /\ pc' = "failed"
            /\ UNCHANGED <<epsilon, diff>>
         \/ /\ \E h \in EpsilonHalves : epsilon' = EpsilonValue(h, M, N)
            /\ success' = IF fromArgv THEN 1 ELSE success
            /\ diff' = epsilon'
            /\ pc' = "readFilename"
    /\ UNCHANGED <<M, N, mean, w, u, i, j, iterations, iterations_print,
                   out, report, output, visited, sweeps, diffs>>

\* lines 295-316
ReadOutputFilename ==
    /\ pc = "readFilename"
    /\ \E fromArgv \in BOOLEAN :
         \/ /\ fromArgv
            /\ success' = 0
            /\ pc' = "failed"
         \/ /\ success' = IF fromArgv THEN 1 ELSE success
            /\ pc' = "setBoundaryValue"
    /\ UNCHANGED <<M, N, epsilon, diff, mean, w, u, i, j, iterations,
                   iterations_print, out, report, output, visited, sweeps,
                   diffs>>

\* line 320, lines 142-159
setBoundaryValue ==
    /\ pc = "setBoundaryValue"
    /\ w' = StampBoundary(w, M, N)
    /\ i' = M - 1
    /\ j' = N
    /\ pc' = "setAverageBoundary"
    /\ UNCHANGED <<M, N, epsilon, diff, mean, u, iterations, iterations_print,
                   success, out, report, output, visited, sweeps, diffs>>

\* line 325, lines 160-190
setAverageBoundary ==
    /\ pc = "setAverageBoundary"
    /\ mean' = MeanOf(w, M, N)
    /\ w' = FillInterior(w, M, N, mean')
    /\ i' = M - 1
    /\ j' = N - 1
    /\ pc' = "getHeat"
    /\ UNCHANGED <<M, N, epsilon, diff, u, iterations, iterations_print,
                   success, out, report, output, visited, sweeps, diffs>>

\* line 332, lines 212-216
getHeat ==
    /\ pc = "getHeat"
    /\ iterations' = 0
    /\ iterations_print' = 1
    /\ pc' = "loopTest"
    /\ UNCHANGED <<M, N, epsilon, diff, mean, w, u, i, j, success, out,
                   report, output, visited, sweeps, diffs>>

\* the last sweep left every cell as it was: a further sweep reads the same
\* snapshot and computes the same grid and the same diff again
AtFixedPoint == w = u /\ diff = 0

\* line 217.  The model follows the loop for MaxSweeps sweeps, the number the
\* fixed-point scale keeps exact, and further only from a fixed point, where
\* the values no longer change.
LoopTest ==
    /\ pc = "loopTest"
    /\ IF LoopCondition
         THEN (iterations < MaxSweeps \/ AtFixedPoint) /\ pc' = "snapshot"
         ELSE pc' = "report"
    /\ UNCHANGED <<M, N, epsilon, diff, mean, w, u, i, j, iterations,
                   iterations_print, success, out, report, output, visited,
                   sweeps, diffs>>

\* lines 222-233: u = w in full, diff = 0, and the cell loops start at (1, 1)
Snapshot ==
    /\ pc = "snapshot"
    /\ u' = [r \in Rows(M) |-> [c \in Cols(N) |-> w[r][c]]]
    /\ diff' = 0
    /\ i' = 1
    /\ j' = 1
    /\ visited' = {}
    /\ sweeps' = Increment(sweeps)
    /\ pc' = "cell"
    /\ UNCHANGED <<M, N, epsilon, mean, w, iterations, iterations_print,
                   success, out, report, output, diffs>>

\* lines 239-244 at cell (r, c)
UpdateCell(r, c) ==
    /\ w' = [w EXCEPT ![r][c] = NewValue(w, u, r, c)]
    /\ diff' = NewDiff(diff, w'[r][c] - u[r][c])
    /\ visited' = visited \cup {<<r, c>>}

\* one pass of the loop body of lines 234-246, in row-major order
Cell ==
    /\ pc = "cell"
    /\ UpdateCell(i, j)
    /\ IF j + 1 < N - 1
         THEN /\ j' = j + 1
              /\ i' = i
              /\ pc' = "cell"
         ELSE IF i + 1 < M - 1
                THEN /\ i' = i + 1
                     /\ j' = 1
                     /\ pc' = "cell"
                ELSE /\ i' = i + 1
                     /\ j' = j + 1
                     /\ pc' = "endSweep"
    /\ UNCHANGED <<M, N, epsilon, mean, u, iterations, iterations_print,
                   success, out, report, output, sweeps, diffs>>

\* lines 247-253
EndSweep ==
    /\ pc = "endSweep"
    /\ iterations' = Increment(iterations)
    /\ IF iterations' = iterations_print
         THEN /\ out' = Append(out, <<iterations', diff>>)
              /\ iterations_print' = NextPrint(iterations_print)
         ELSE UNCHANGED <<out, iterations_print>>
    /\ diffs' = IF iterations < MaxSweeps THEN Append(diffs, diff) ELSE diffs
    /\ pc' = "loopTest"
    /\ UNCHANGED <<M, N, epsilon, diff, mean, w, u, i, j, success, report,
                   output, visited, sweeps>>

\* lines 337-346: the final line (iterations, diff), then writeToFile
\* (lines 191-209) writes M, N and the grid
Report ==
    /\ pc = "report"
    /\ report' = <<iterations, diff>>
    /\ output' = <<M, N, w>>
    /\ i' = M
    /\ j' = N
    /\ pc' = "exit"
    /\ UNCHANGED <<M, N, epsilon, diff, mean, w, u, iterations,
                   iterations_print, success, out, visited, sweeps, diffs>>

Next ==
    \/ ReadEpsilon
    \/ ReadOutputFilename
    \/ setBoundaryValue
    \/ setAverageBoundary
    \/ getHeat
    \/ LoopTest
    \/ Snapshot
    \/ Cell
    \/ EndSweep
    \/ Report

Spec == Init /\ [][Next]_vars

\* the program is one sequential thread: a step that can be taken is taken
FairSpec == Spec /\ WF_vars(Next)

(* --------------------- one sweep, any visiting order ------------------- *)

\* values an interior cell may hold when the sweep starts, in degrees
PermValues == {0, 40}

\* the grids a sweep may start from: the boundary as setBoundaryValue leaves
\* it, any of PermValues in each interior cell
PermGrids(m, n) ==
    { [r \in Rows(m) |-> [c \in Cols(n) |->
          IF <<r, c>> \in Interior(m, n)
            THEN f[<<r, c>>] * Scale(m, n)
            ELSE StampBoundary(ZeroGrid(m, n), m, n)[r][c]]] :
      f \in [Interior(m, n) -> PermValues] }

\* the state at the top of a sweep (line 222), before the copy into u
InitPerm ==
    /\ M \in PermDims
    /\ N \in PermDims
    /\ epsilon = 0
    /\ diff = 0
    /\ mean = 0
    /\ w \in PermGrids(M, N)
    /\ u = ZeroGrid(M, N)
    /\ i = M - 1
    /\ j = N - 1
    /\ iterations = 0
    /\ iterations_print = 1
    /\ success = 0
    /\ pc = "snapshot"
    /\ out = <<>>
    /\ report = <<>>
    /\ output = <<>>
    /\ visited = {}
    /\ sweeps = 0
    /\ diffs = <<>>

\* the loop body of lines 234-246 applied to the interior cells in any order
CellAnyOrder ==
    /\ pc = "cell"
    /\ \E cell \in Interior(M, N) \ visited :
         /\ UpdateCell(cell[1], cell[2])
         /\ i' = cell[1]
         /\ j' = cell[2]
    /\ pc' = IF visited' = Interior(M, N) THEN "endSweep" ELSE "cell"
    /\ UNCHANGED <<M, N, epsilon, mean, u, iterations, iterations_print,
                   success, out, report, output, sweeps, diffs>>

NextPerm ==
    \/ Snapshot
    \/ CellAnyOrder
    \/ EndSweep

SpecPerm == InitPerm /\ [][NextPerm]_vars

\* the interior cells in the order the loops of lines 234-236 visit them
RowMajor(m, n) ==
    [k \in 1..((m - 2) * (n - 2)) |->
        <<1 + ((k - 1) \div (n - 2)), 1 + ((k - 1) % (n - 2))>>]

RECURSIVE SweepFrom(_, _, _, _, _)
\* lines 234-246 run over the cells order[k..]: the grid and the diff they leave
SweepFrom(wg, ug, d, order, k) ==
    IF k > Len(order)
      THEN [grid |-> wg, diff |-> d]
      ELSE LET r == order[k][1]
               c == order[k][2]
               v == NewValue(wg, ug, r, c)
           IN  SweepFrom([wg EXCEPT ![r][c] = v], ug,
                         NewDiff(d, v - ug[r][c]), order, k + 1)

(* ------------------------------ sanity --------------------------------- *)

LoopStates == {"loopTest", "snapshot", "cell", "endSweep"}

AfterLoop == {"report", "exit"}

\* every division the model performs is exact: no value is rounded
ExactArithmetic ==
    /\ pc = "setAverageBoundary" =>
         BoundaryTotal(w, M, N) % BoundaryCount(M, N) = 0
    /\ pc = "cell" =>
         \A cell \in Interior(M, N) :
            NeighbourSum(w, u, cell[1], cell[2]) % 4 = 0

RECURSIVE SumOver(_, _)
\* the sum of the grid g over the set S of cells
SumOver(g, S) ==
    IF S = {} THEN 0
    ELSE LET cell == CHOOSE x \in S : TRUE
         IN  g[cell[1]][cell[2]] + SumOver(g, S \ {cell})

\* four times the distance of cell (r, c) of g from the average of its four
\* neighbours in g
Residual4(g, r, c) ==
    fabs(4 * g[r][c] - (g[r - 1][c] + g[r + 1][c] + g[r][c - 1] + g[r][c + 1]))

IsPowerOfTwo(k) == \E e \in 0..k : 2 ^ e = k

(* ------------------------------- claims -------------------------------- *)

\* C1 (as stated): for every epsilon >= 0, epsilon = 0 included, the loop
\* entered with diff = epsilon leaves the Iterating state after finitely many
\* sweeps.  A run that has used the MaxSweeps sweeps the model follows while
\* the grid was still changing (diff > 0) says nothing and is let through.
C1_Terminates ==
    (pc = "loopTest" /\ epsilon >= 0)
        ~> (pc = "report" \/ (iterations = MaxSweeps /\ diff > 0))

\* C2: once the loop has ended, every interior cell of the final grid is
\* within epsilon of the average of its four neighbours in that grid.
C2_SteadyWithinTolerance ==
    pc \in AfterLoop =>
        \A cell \in Interior(M, N) :
            Residual4(w, cell[1], cell[2]) <= 4 * epsilon

C2_Witness ==
    /\ pc = "exit"
    /\ sweeps >= 2
    /\ \E cell \in Interior(M, N) : Residual4(w, cell[1], cell[2]) > 0

C3_BoundaryStamped ==
    pc \in {"setAverageBoundary", "getHeat"} \cup LoopStates \cup AfterLoop =>
        /\ \A r \in 1..(M - 2) :
              /\ w[r][0] = westValue * Scale(M, N)
              /\ w[r][N - 1] = eastValue * Scale(M, N)
        /\ \A c \in Cols(N) :
              /\ w[0][c] = northValue * Scale(M, N)
              /\ w[M - 1][c] = southValue * Scale(M, N)

C3_SweepWritesInterior ==
    pc \in LoopStates =>
        \A cell \in Boundary(M, N) : w'[cell[1]][cell[2]] = w[cell[1]][cell[2]]

\* C3: in every state after setBoundaryValue the west and east columns (rows
\* 1..M-2) hold westValue and eastValue, the north and south rows (all
\* columns, corners included) hold northValue and southValue, and no step of
\* the loop writes a boundary cell of w.
C3_BoundaryHeld == []C3_BoundaryStamped /\ [][C3_SweepWritesInterior]_vars

C3_Witness ==
    /\ pc = "endSweep"
    /\ sweeps >= 2
    /\ w # u
    /\ M > 3
    /\ N > 3

\* C4: right after setBoundaryValue and setAverageBoundary every interior
\* cell equals mean, and mean is the sum of the boundary cells, each counted
\* once, divided by 2M+2N-4.
C4_MeanInvariant ==
    pc = "getHeat" =>
        /\ \A cell \in Interior(M, N) : w[cell[1]][cell[2]] = mean
        /\ mean * (2 * M + 2 * N - 4) = SumOver(w, Boundary(M, N))
        /\ Cardinality(Boundary(M, N)) = 2 * M + 2 * N - 4

C4_Witness ==
    /\ pc = "getHeat"
    /\ mean > 0
    /\ M # N

\* C5 (as stated): on the 3 by 3 grid the first sweep sets w[1][1] to the
\* average of its four boundary neighbours and the diff of that sweep is 0.
C5_ImmediateConvergence ==
    (M = 3 /\ N = 3 /\ pc = "endSweep" /\ sweeps = 1) =>
        /\ Residual4(w, 1, 1) = 0
        /\ diff = 0

\* C5 (amended): on the 3 by 3 grid the first sweep sets w[1][1] to the
\* average of its four boundary neighbours, 75; the diff of that sweep is the
\* distance of 75 from the initial mean 62.5, that is 12.5; the diff of
\* every later sweep is 0.
C5_MinimumGrid ==
    (M = 3 /\ N = 3 /\ pc = "endSweep") =>
        /\ Residual4(w, 1, 1) = 0
        /\ w[1][1] = 75 * Scale(M, N)
        /\ sweeps = 1 => (diff = fabs(w[1][1] - mean) /\ 2 * diff = 25 * Scale(M, N))
        /\ sweeps >= 2 => diff = 0

C5_Witness ==
    /\ M = 3
    /\ N = 3
    /\ pc = "endSweep"
    /\ sweeps = 2
    /\ diffs # <<>>
    /\ diffs[1] > 0

\* C6 (as stated): with a negative epsilon the run fails before any grid cell
\* is written: the grid is never touched and no sweep runs.
C6_NegativeEpsilonRejected ==
    epsilon < 0 =>
        /\ w = ZeroGrid(M, N)
        /\ u = ZeroGrid(M, N)
        /\ sweeps = 0
        /\ pc \in {"readFilename", "failed"}

C7_FromSnapshot ==
    pc \in {"cell", "endSweep"} =>
        /\ \A cell \in Boundary(M, N) : u[cell[1]][cell[2]] = w[cell[1]][cell[2]]
        /\ \A cell \in Interior(M, N) \ visited : w[cell[1]][cell[2]] = u[cell[1]][cell[2]]
        /\ \A cell \in visited :
              LET r == cell[1]
                  c == cell[2]
              IN  w[r][c] = (u[r - 1][c] + u[r + 1][c] + u[r][c - 1] + u[r][c + 1]) \div 4

C7_SameAsRowMajor ==
    pc = "endSweep" =>
        LET ref == SweepFrom(u, u, 0, RowMajor(M, N), 1)
        IN  /\ w = ref.grid
            /\ diff = ref.diff

\* C7: within a sweep every new interior value comes from the four neighbours
\* in the snapshot u, a full copy of w taken when the sweep starts, never from
\* a value written in the same sweep; visiting the interior cells in any
\* order gives the grid and the diff that the row-major order gives.
C7_OrderIndependent == C7_FromSnapshot /\ C7_SameAsRowMajor

C7_Witness ==
    /\ pc = "endSweep"
    /\ (M - 2) * (N - 2) >= 2
    /\ <<i, j>> # <<M - 2, N - 2>>
    /\ diff > 0
    /\ \E cell \in Interior(M, N) : w[cell[1]][cell[2]] # u[cell[1]][cell[2]]

\* C8: with the reference boundary values the diff of a sweep is never above
\* the diff of the sweep before it.
C8_DiffNonIncreasing ==
    \A k \in 1..(Len(diffs) - 1) : diffs[k + 1] <= diffs[k]

C8_Witness ==
    /\ Len(diffs) >= 3
    /\ diffs[3] > 0
    /\ diffs[3] < diffs[2]
    /\ diffs[2] < diffs[1]

C9_Counts ==
    /\ pc = "loopTest" => iterations = sweeps
    /\ (pc = "endSweep" /\ iterations < MaxSweeps) => iterations + 1 = sweeps
    /\ pc \in AfterLoop =>
         /\ diff < epsilon
         /\ iterations = sweeps
         /\ sweeps >= 1

C9_Transition ==
    (pc = "loopTest" /\ iterations >= 1 /\ pc' # pc) =>
        /\ pc' = "report" <=> diff < epsilon
        /\ pc' = "snapshot" <=> diff >= epsilon

C9_EndSweep ==
    (pc = "endSweep" /\ iterations < MaxSweeps) => iterations' = iterations + 1

C10_DoublingSchedule ==
    pc \in LoopStates \cup AfterLoop =>
        /\ \A k \in 1..Len(out) :
              /\ out[k][1] = 2 ^ (k - 1)
              /\ out[k][1] <= iterations
              /\ out[k][2] = diffs[out[k][1]]
        /\ \A k \in 1..iterations :
              IsPowerOfTwo(k) <=> (\E n \in 1..Len(out) : out[n][1] = k)
        /\ iterations_print = 2 ^ Len(out)
        /\ iterations_print > iterations

C10_Witness ==
    /\ pc = "loopTest"
    /\ iterations >= 5
    /\ Len(out) = 3

====
